---- MODULE Spec2Model ----
(***************************************************************************)
(* Stellar Skies Console: the chat route (src/app/api/chat/route.ts) and   *)
(* the page that consumes it (src/unnamed/part_000).                       *)
(*                                                                         *)
(* The route hands the reasoning loop to streamText and the page hands the *)
(* transcript to useChat.  Both are modelled by what the calls in the      *)
(* source ask of them: the step loop bounded by stopWhen: stepCountIs(7),  *)
(* the tools with their input schemas and execute functions, the stream of *)
(* UI message chunks of toUIMessageStreamResponse, and the chat state      *)
(* (messages, status, error) that useChat builds from that stream.         *)
(***************************************************************************)
EXTENDS Integers, Sequences, FiniteSets, TLC

VARIABLES
    messages,     \* useChat: the transcript shown by the page
    status,       \* useChat: "ready" | "submitted" | "streaming" | "error"
    error,        \* useChat: TRUE when an error object is set
    input,        \* useState(""): the draft, a sequence of characters
    runs,         \* one record per POST request, in the order they were sent
    budget,       \* what the user and the planner may still do (model bound)
    invocation,   \* one tool invocation taken alone: its input and its result
    pools,        \* the module-level arrays of route.ts, shared by all requests
    served,       \* the tool invocations of several conversations, in order
    sample        \* one call of takeRandom taken alone: its arguments and result

vars == <<messages, status, error, input, runs, budget, invocation, pools, served,
          sample>>

----------------------------------------------------------------------------
(* Bounds of the model *)

MaxSends == 2          \* user messages sent in a conversation of several messages
MaxVariedCalls == 2    \* tool calls of a response that leaves the default script
MaxDeviations == 1     \* planner choices outside the default script
MaxTextLen == 1        \* text deltas of one text part
MaxCallsPerStep == 2   \* tool calls the planner makes in one step
MaxConversations == 2  \* conversations served by the module at the same time
MaxServed == 3         \* tool invocations the module serves for them
MaxRenderParts == 2    \* parts of the message given to the renderer
MaxItems == 4          \* length of the list given to takeRandom
MaxCount == 5          \* count given to takeRandom

(* Program constants *)

StepCap == 7           \* stopWhen: stepCountIs(7)
MinSuggestions == 1    \* .min(1)
MaxSuggestions == 3    \* .max(3)
TakeCount == 3         \* takeRandom(hazardPool, 3), (windowPool, 3), (eventPool, 3)
TempBase == 42         \* 42 + Math.floor(Math.random() * 220)
TempSpan == 220

----------------------------------------------------------------------------
(* Small helpers *)

Min(a, b) == IF a < b THEN a ELSE b

Last(s) == s[Len(s)]

----------------------------------------------------------------------------
(* Text: a string is a sequence of one-character strings *)

RECURSIVE TrimStart(_)
TrimStart(s) ==
    IF s # <<>> /\ Head(s) = " " THEN TrimStart(Tail(s)) ELSE s

RECURSIVE TrimEnd(_)
TrimEnd(s) ==
    IF s # <<>> /\ Last(s) = " " THEN TrimEnd(SubSeq(s, 1, Len(s) - 1)) ELSE s

\* trim that leaves the whitespace at the end
TrimLeading(s) == TrimStart(s)

\* String.prototype.trim as used by handleSubmit
Trim(s) == TrimEnd(TrimStart(s))

\* the drafts the user types
Drafts == {<<>>, <<" ">>, <<" ", "a", " ">>}

\* the prompts behind the quick-prompt buttons, each standing for its text
quickPrompts == {<<"Europa dive briefing">>, <<"Rings Bazaar fly-in">>,
                 <<"Neptune night cruise">>}

\* the button the user clicks (the three differ in their text only)
ClickedPrompts == {<<"Europa dive briefing">>}

----------------------------------------------------------------------------
(* Tool registry: names, input schemas, execute *)

\* What a conversation may still do: messages sent, tool calls made, and
\* planner choices outside the default script (one valid weather call per
\* step, a text in the last step).  A conversation is one of
\*   - one message answered along the default script, up to the step cap;
\*   - one message answered by a short loop that leaves the default script;
\*   - several messages, sent at any time, each answered with text only;
\*   - several messages, each sent when no response is in progress, answered
\*     along the default script with a few tool calls.
Budgets ==
    {[sends |-> 1, calls |-> StepCap, deviations |-> 0, patient |-> FALSE],
     [sends |-> 1, calls |-> MaxVariedCalls, deviations |-> MaxDeviations, patient |-> FALSE],
     [sends |-> MaxSends, calls |-> 0, deviations |-> 0, patient |-> FALSE],
     [sends |-> MaxSends, calls |-> MaxVariedCalls, deviations |-> 0, patient |-> TRUE]}

LocationTools == {"weather", "hazardScan", "navigationWindows", "celestialEvents"}

ToolNames == LocationTools \cup {"whatToWear"}

\* the tools the planner calls in a conversation
PlannerTools == {"weather", "whatToWear"}

\* a name the planner comes up with that is not a key of tools
UnknownTools == {"teleport"}

\* Arguments as the model produces them, before validation.
\*   kind "location"    : an object with a string location
\*   kind "suggestions" : an object with a list of well-formed suggestions
\*   kind "empty"       : an object with neither
NoInput == [kind |-> "undefined", location |-> "", suggestions |-> <<>>]

LocationArgs(l) == [kind |-> "location", location |-> l, suggestions |-> <<>>]

\* the gear the planner suggests, in the order it suggests it
gear ==
    <<[title |-> "Aurora visor", description |-> "Polarized against ion glare"],
      [title |-> "Gravity boots", description |-> "Adaptive grip for low gravity"],
      [title |-> "Plasma cloak", description |-> "Sheds static buildup"],
      [title |-> "Flux gloves", description |-> "Insulated to 7 radiation index"]>>

SuggestionArgs(k) ==
    [kind |-> "suggestions", location |-> "", suggestions |-> SubSeq(gear, 1, k)]

EmptyArgs == [kind |-> "empty", location |-> "", suggestions |-> <<>>]

\* the arguments the planner may pass to a tool
ArgChoices(tool) ==
    IF tool = "whatToWear"
    THEN {SuggestionArgs(k) : k \in {0, MinSuggestions, MaxSuggestions + 1}}
    ELSE {LocationArgs("Titan"), EmptyArgs}

\* z.object({ suggestions: z.array(...).min(1).max(3) })
wearSchemaNoMin(args) ==
    args.kind = "suggestions" /\ Len(args.suggestions) <= MaxSuggestions

wearSchema(args) ==
    /\ args.kind = "suggestions"
    /\ Len(args.suggestions) >= MinSuggestions
    /\ Len(args.suggestions) <= MaxSuggestions

\* z.object({ location: z.string() })
locationSchema(args) == args.kind = "location"

inputSchema(tool, args) ==
    IF tool = "whatToWear" THEN wearSchema(args) ELSE locationSchema(args)

----------------------------------------------------------------------------
(* The content pools.  A text is kept whole; only the first words of the
   longer ones are written out. *)

conditionPool ==
    <<"radiant auroras with sporadic ion gusts",
      "levitating mist and crystalline snowfall",
      "glittering micro-meteor drizzle",
      "calm plasma tide with soft starlight",
      "low-gravity fog banks swirling over the horizon",
      "polar light storms tracing the skyline",
      "nebula haze with intermittent gamma sparkles">>

windPool ==
    <<"solar breeze at 18 mph", "ion drift steady at 9 mph",
      "crosswind bursts peaking at 24 mph", "mag-lev gusts oscillating at 12 mph",
      "vacuum pockets causing gentle downdrafts",
      "orbit-synced zephyrs circling at 15 mph">>

radiationPool ==
    <<"radiation index 3 (shielded comfort)",
      "radiation index 5 (medium flare activity)",
      "radiation index 7 (reinforce hull plating)",
      "trace cosmic rays; recommend polarized lenses",
      "gamma sparkle showers (short exposure advised)">>

advisoryPool ==
    <<"Visibility remains crystalline within 20 klicks.",
      "Flux monitors stable; optimal for sightseeing.",
      "Expect static buildup on exposed alloys.",
      "Great time for sub-orbital glides and photo ops.",
      "Solar sails may flutter-tighten your rigging.",
      "Recommended to enable adaptive gravity boots.">>

HazardSeverity == <<"Low", "Elevated", "Critical">>

hazardPool ==
    <<[name |-> "Ion Storm Corridor", severity |-> "Critical",
       guidance |-> "Delay travel or increase shield harmonics by 30%."],
      [name |-> "Rogue Micro-Meteor Swarm", severity |-> "Elevated",
       guidance |-> "Activate kinetic deflectors; reduce speed under 300 knots."],
      [name |-> "Solar Flare Echo", severity |-> "Elevated",
       guidance |-> "Switch to reflective plating and route through the dusk-side."],
      [name |-> "Gravity Tide Surge", severity |-> "Critical",
       guidance |-> "Anchor vessels and reschedule landings two cycles later."],
      [name |-> "Frozen Plasma Sheen", severity |-> "Low",
       guidance |-> "Engage traction fields; watch for slick docking pads."],
      [name |-> "Resonant Aurora Current", severity |-> "Low",
       guidance |-> "Tune communicators to backup spectrum to avoid drift."]>>

eventPool ==
    <<[title |-> "Europa Ice Bloom", detail |-> "Subsurface geysers crystallize mid-arc"],
      [title |-> "Leviathan Comet Flyby", detail |-> "A sapphire tail cuts across the sky"],
      [title |-> "Titan Dune Choir", detail |-> "Ion winds whistle across dunes"],
      [title |-> "Rings Bazaar Lightfall", detail |-> "Saturn's rings cast shimmering patterns"],
      [title |-> "Aurora Cascade Pulse", detail |-> "Aurora curtains ripple in layered waves"],
      [title |-> "Neptune Halo Mirage", detail |-> "An atmospheric reflection creates a halo"]>>

eventTimePool ==
    <<"Orbit 22.4", "GST + 02h", "Local dusk cycle", "Solar noon",
      "Three pulses past midnight", "Blue giant rising">>

windowPool ==
    <<[label |-> "Calm Corridor", window |-> "21:10 - 22:05 GST",
       note |-> "Ion flux dips below 10%; ideal for docking maneuvers."],
      [label |-> "Polar Drift Lane", window |-> "04:40 - 05:35 GST",
       note |-> "Gravity tides neutralize, opening a smooth northbound path."],
      [label |-> "Sunrise Slipstream", window |-> "08:05 - 08:50 GST",
       note |-> "Solar sail efficiency peaks thanks to coherent breezes."],
      [label |-> "Nightglow Passage", window |-> "16:45 - 17:25 GST",
       note |-> "Nebula particulates thin out, boosting sensor clarity."],
      [label |-> "Crystalline Approach", window |-> "11:10 - 12:00 GST",
       note |-> "Docking pads defrost; minimal plasma sheen expected."]>>

\* the arrays as the module creates them
modulePools ==
    [conditionPool |-> conditionPool, windPool |-> windPool,
     radiationPool |-> radiationPool, advisoryPool |-> advisoryPool,
     hazardPool |-> hazardPool, eventPool |-> eventPool,
     eventTimePool |-> eventTimePool, windowPool |-> windowPool]

----------------------------------------------------------------------------
(* Random sampling.  Every Math.floor(Math.random() * n) is a draw in
   0..n-1, given to the function as an argument. *)

\* randomOf(items) with draw d
randomOf(items, d) == items[d + 1]

\* a swap that only writes pool[i]
SwapCopies(pool, a, b) == [pool EXCEPT ![a] = pool[b]]

Swap(pool, a, b) == [pool EXCEPT ![a] = pool[b], ![b] = pool[a]]

NoSample == [state |-> "idle", given |-> <<>>, items |-> <<>>, count |-> 0,
             draws |-> <<>>, result |-> <<>>]

\* the loop of takeRandom: i runs from pool.length - 1 down to 1 (0-based),
\* js[i] is the draw j in 0..i
RECURSIVE Shuffle(_, _, _)
Shuffle(pool, i, js) ==
    IF i < 1 THEN pool
    ELSE Shuffle(Swap(pool, i + 1, js[i] + 1), i - 1, js)

\* takeRandom without its slice
takeRandomAll(items, count, js) == Shuffle(items, Len(items) - 1, js)

takeRandom(items, count, js) ==
    LET pool == Shuffle(items, Len(items) - 1, js) IN
    SubSeq(pool, 1, Min(count, Len(pool)))

\* takeRandom that shuffles the array it is given
takeRandomItemsInPlace(items, count, js) == Shuffle(items, Len(items) - 1, js)

\* the array items after takeRandom(items, count): the loop swaps in pool,
\* a copy ([...items]), and items is not written
takeRandomItems(items, count, js) == items

\* the draws a shuffle of n items may make
ShuffleDraws(n) ==
    {js \in [1..(n - 1) -> 0..(n - 1)] : \A i \in 1..(n - 1) : js[i] <= i}

----------------------------------------------------------------------------
(* execute of the five tools.  d.shuffle holds the draws of takeRandom,
   d.picks the other draws in the order the code makes them. *)

NoOutput == [tool |-> "none"]

\* weather with a temperature that is rounded up
weatherRoundedUp(args, d) ==
    [tool |-> "weather",
     location |-> args.location,
     temperature |-> TempBase + d.picks[1] + 1,
     conditions |-> randomOf(pools.conditionPool, d.picks[2]),
     wind |-> randomOf(pools.windPool, d.picks[3]),
     radiation |-> randomOf(pools.radiationPool, d.picks[4]),
     advisory |-> randomOf(pools.advisoryPool, d.picks[5])]

weather(args, d) ==
    [tool |-> "weather",
     location |-> args.location,
     temperature |-> TempBase + d.picks[1],
     conditions |-> randomOf(pools.conditionPool, d.picks[2]),
     wind |-> randomOf(pools.windPool, d.picks[3]),
     radiation |-> randomOf(pools.radiationPool, d.picks[4]),
     advisory |-> randomOf(pools.advisoryPool, d.picks[5])]

hazardScan(args, d) ==
    [tool |-> "hazardScan",
     location |-> args.location,
     riskLevel |-> randomOf(HazardSeverity, d.picks[1]),
     hazards |-> takeRandom(pools.hazardPool, TakeCount, d.shuffle)]

navigationWindows(args, d) ==
    LET taken == takeRandom(pools.windowPool, TakeCount, d.shuffle) IN
    [tool |-> "navigationWindows",
     windows |-> [i \in 1..Len(taken) |->
                     [taken[i] EXCEPT !.note = <<taken[i].note, " (", args.location, ").">>]]]

celestialEvents(args, d) ==
    LET taken == takeRandom(pools.eventPool, TakeCount, d.shuffle) IN
    [tool |-> "celestialEvents",
     events |-> [i \in 1..Len(taken) |->
                    [title |-> taken[i].title, detail |-> taken[i].detail,
                     time |-> randomOf(pools.eventTimePool, d.picks[i])]]]

\* whatToWear that returns its suggestions last first
whatToWearReversed(args, d) ==
    [tool |-> "whatToWear",
     suggestions |-> [i \in 1..Len(args.suggestions) |->
                         args.suggestions[Len(args.suggestions) + 1 - i]]]

whatToWear(args, d) ==
    [tool |-> "whatToWear", suggestions |-> args.suggestions]

execute(tool, args, d) ==
    CASE tool = "weather" -> weather(args, d)
      [] tool = "hazardScan" -> hazardScan(args, d)
      [] tool = "navigationWindows" -> navigationWindows(args, d)
      [] tool = "celestialEvents" -> celestialEvents(args, d)
      [] tool = "whatToWear" -> whatToWear(args, d)

\* the module arrays after execute of a tool
poolsAfter(tool, args, d) ==
    CASE tool = "hazardScan" ->
           [pools EXCEPT !.hazardPool = takeRandomItems(@, TakeCount, d.shuffle)]
      [] tool = "navigationWindows" ->
           [pools EXCEPT !.windowPool = takeRandomItems(@, TakeCount, d.shuffle)]
      [] tool = "celestialEvents" ->
           [pools EXCEPT !.eventPool = takeRandomItems(@, TakeCount, d.shuffle)]
      [] OTHER -> pools

\* the draws execute of a tool may make; the draws of temperature, of the
\* texts of weather and of the event times are the first and the last
Ends(n) == {0, n - 1}

Draws(tool) ==
    CASE tool = "weather" ->
           {[shuffle |-> <<>>, picks |-> <<t, c, w, r, a>>] :
               t \in Ends(TempSpan), c \in Ends(Len(conditionPool)),
               w \in Ends(Len(windPool)), r \in Ends(Len(radiationPool)),
               a \in Ends(Len(advisoryPool))}
      [] tool = "hazardScan" ->
           {[shuffle |-> js, picks |-> <<k>>] :
               js \in ShuffleDraws(Len(hazardPool)), k \in 0..(Len(HazardSeverity) - 1)}
      [] tool = "navigationWindows" ->
           {[shuffle |-> js, picks |-> <<>>] : js \in ShuffleDraws(Len(windowPool))}
      [] tool = "celestialEvents" ->
           {[shuffle |-> js, picks |-> <<a, b, c>>] :
               js \in ShuffleDraws(Len(eventPool)),
               a \in Ends(Len(eventTimePool)), b \in Ends(Len(eventTimePool)),
               c \in Ends(Len(eventTimePool))}
      [] tool = "whatToWear" -> {[shuffle |-> <<>>, picks |-> <<>>]}

\* the draws that are all 0
ZeroDraws(tool) ==
    CHOOSE d \in Draws(tool) :
        /\ \A i \in DOMAIN d.shuffle : d.shuffle[i] = 0
        /\ \A i \in DOMAIN d.picks : d.picks[i] = 0

\* a tool invoked through the registry: the arguments are validated, and
\* execute runs only on arguments that pass
NoInvocation ==
    [tool |-> "none", args |-> NoInput, draws |-> [shuffle |-> <<>>, picks |-> <<>>],
     state |-> "idle", executed |-> FALSE, output |-> NoOutput]

invoke(tool, args, d) ==
    IF inputSchema(tool, args)
    THEN [tool |-> tool, args |-> args, draws |-> d, state |-> "returned",
          executed |-> TRUE, output |-> execute(tool, args, d)]
    ELSE [tool |-> tool, args |-> args, draws |-> d, state |-> "rejected",
          executed |-> FALSE, output |-> NoOutput]

----------------------------------------------------------------------------
(* Parts, messages and the chunks of the UI message stream *)

TextPart(id) ==
    [type |-> "text", id |-> id, tool |-> "", state |-> "text", text |-> <<>>,
     input |-> NoInput, rawInput |-> NoInput, output |-> NoOutput, errorText |-> ""]

ToolPart(id, tool) ==
    [type |-> "tool", id |-> id, tool |-> tool, state |-> "input-streaming",
     text |-> <<>>, input |-> NoInput, rawInput |-> NoInput, output |-> NoOutput,
     errorText |-> ""]

Chunk(type, id) ==
    [type |-> type, id |-> id, tool |-> "", delta |-> "", input |-> NoInput,
     output |-> NoOutput, errorText |-> ""]

IsTool(part) == part.type = "tool"

\* the message of a user, as sendMessage({ text }) builds it
UserMessage(id, text) ==
    [id |-> id, role |-> "user", parts |-> <<[TextPart(1) EXCEPT !.text = text]>>]

\* the empty assistant message a request starts from
AssistantMessage(id) == [id |-> id, role |-> "assistant", parts |-> <<>>]

\* index of the part of msg with the given id (0 when there is none)
PartIndex(msg, id) ==
    IF \E i \in 1..Len(msg.parts) : msg.parts[i].id = id
    THEN CHOOSE i \in 1..Len(msg.parts) : msg.parts[i].id = id
    ELSE 0

\* ApplyChunk with a text-start that starts the parts afresh
ApplyChunkReset(msg, c) ==
    LET i == PartIndex(msg, c.id) IN
    CASE c.type = "text-start" ->
           [msg EXCEPT !.parts = <<TextPart(c.id)>>]
      [] c.type = "text-delta" ->
           [msg EXCEPT !.parts[i].text = Append(@, c.delta)]
      [] c.type = "tool-input-start" ->
           [msg EXCEPT !.parts = Append(@, ToolPart(c.id, c.tool))]
      [] c.type = "tool-input-available" ->
           [msg EXCEPT !.parts[i].state = "input-available",
                       !.parts[i].input = c.input]
      [] c.type = "tool-input-error" ->
           [msg EXCEPT !.parts[i].state = "output-error",
                       !.parts[i].rawInput = c.input,
                       !.parts[i].errorText = c.errorText]
      [] c.type = "tool-output-available" ->
           [msg EXCEPT !.parts[i].state = "output-available",
                       !.parts[i].output = c.output]
      [] c.type = "tool-output-error" ->
           [msg EXCEPT !.parts[i].state = "output-error",
                       !.parts[i].errorText = c.errorText]
      [] OTHER -> msg

\* ApplyChunk that settles a failed call without its error text
ApplyChunkDropsErrorText(msg, c) ==
    LET i == PartIndex(msg, c.id) IN
    CASE c.type = "text-start" ->
           [msg EXCEPT !.parts = Append(@, TextPart(c.id))]
      [] c.type = "text-delta" ->
           [msg EXCEPT !.parts[i].text = Append(@, c.delta)]
      [] c.type = "tool-input-start" ->
           [msg EXCEPT !.parts = Append(@, ToolPart(c.id, c.tool))]
      [] c.type = "tool-input-available" ->
           [msg EXCEPT !.parts[i].state = "input-available",
                       !.parts[i].input = c.input]
      [] c.type = "tool-input-error" ->
           [msg EXCEPT !.parts[i].state = "output-error",
                       !.parts[i].rawInput = c.input]
      [] c.type = "tool-output-available" ->
           [msg EXCEPT !.parts[i].state = "output-available",
                       !.parts[i].output = c.output]
      [] c.type = "tool-output-error" ->
           [msg EXCEPT !.parts[i].state = "output-error"]
      [] OTHER -> msg

\* one chunk applied to the message under construction
ApplyChunk(msg, c) ==
    LET i == PartIndex(msg, c.id) IN
    CASE c.type = "text-start" ->
           [msg EXCEPT !.parts = Append(@, TextPart(c.id))]
      [] c.type = "text-delta" ->
           [msg EXCEPT !.parts[i].text = Append(@, c.delta)]
      [] c.type = "tool-input-start" ->
           [msg EXCEPT !.parts = Append(@, ToolPart(c.id, c.tool))]
      [] c.type = "tool-input-available" ->
           [msg EXCEPT !.parts[i].state = "input-available",
                       !.parts[i].input = c.input]
      [] c.type = "tool-input-error" ->
           [msg EXCEPT !.parts[i].state = "output-error",
                       !.parts[i].rawInput = c.input,
                       !.parts[i].errorText = c.errorText]
      [] c.type = "tool-output-available" ->
           [msg EXCEPT !.parts[i].state = "output-available",
                       !.parts[i].output = c.output]
      [] c.type = "tool-output-error" ->
           [msg EXCEPT !.parts[i].state = "output-error",
                       !.parts[i].errorText = c.errorText]
      [] OTHER -> msg

\* a buffered stream applied in order to a message
RECURSIVE Replay(_, _)
Replay(msg, stream) ==
    IF stream = <<>> THEN msg
    ELSE Replay(ApplyChunk(msg, Head(stream)), Tail(stream))

\* write() that puts the parts into the last message without comparing ids
WriteMerge(msgs, msg) ==
    IF msgs # <<>>
    THEN [msgs EXCEPT ![Len(msgs)].parts = msg.parts]
    ELSE Append(msgs, msg)

\* write() that always puts the message in the last place of the transcript
WriteReplacesLast(msgs, msg) ==
    IF msgs # <<>>
    THEN [msgs EXCEPT ![Len(msgs)] = msg]
    ELSE Append(msgs, msg)

\* the chat's write(): replace the last message when it is the one under
\* construction, push it otherwise
Write(msgs, msg) ==
    IF msgs # <<>> /\ Last(msgs).id = msg.id
    THEN [msgs EXCEPT ![Len(msgs)] = msg]
    ELSE Append(msgs, msg)

----------------------------------------------------------------------------
(* The page: derived values *)

isStreaming == status = "streaming" \/ status = "loading"

hasMessages == Len(messages) > 0

\* the status badge: label and description for each key of the map
statusDetailsMap ==
    [k \in {"streaming", "loading", "ready", "idle", "error", "errored"} |->
        CASE k = "streaming" ->
               [label |-> "Streaming response",
                description |-> "Vox Solaris is transmitting fresh telemetry."]
          [] k = "loading" ->
               [label |-> "Routing tools",
                description |-> "Linking weather, hazard, and navigation modules."]
          [] k \in {"ready", "idle"} ->
               [label |-> "Standing by",
                description |-> "Console idle and ready for your next prompt."]
          [] k \in {"error", "errored"} ->
               [label |-> "Transmission glitch",
                description |-> "Interference hit the feed. Try again in a beat."]]

\* statusDetailsMap[status] ?? statusDetailsMap.ready
statusDetails ==
    IF status \in DOMAIN statusDetailsMap
    THEN statusDetailsMap[status]
    ELSE statusDetailsMap["ready"]

\* the filter of toolActivations without its test of the state
RECURSIVE filterLengthAnyState(_)
filterLengthAnyState(parts) ==
    IF parts = <<>> THEN 0
    ELSE (IF IsTool(Head(parts)) THEN 1 ELSE 0) + filterLengthAnyState(Tail(parts))

\* parts.filter(...).length of toolActivations: the parts whose type starts
\* with "tool-" and whose state is output-available
RECURSIVE filterLength(_)
filterLength(parts) ==
    IF parts = <<>> THEN 0
    ELSE (IF IsTool(Head(parts)) /\ Head(parts).state = "output-available"
          THEN 1 ELSE 0) + filterLength(Tail(parts))

\* messages.reduce((count, message) => count + ..., 0)
RECURSIVE reduce(_, _)
reduce(msgs, count) ==
    IF msgs = <<>> THEN count
    ELSE reduce(Tail(msgs), count + filterLength(Head(msgs).parts))

\* the "tool runs" metric
toolActivations == reduce(messages, 0)

----------------------------------------------------------------------------
(* The page: message.parts.map((part, index) => ...) *)

\* the line shown while the input of a tool is streaming or available
progressLine ==
    [t \in ToolNames |->
        CASE t = "weather" -> "Gathering weather telemetry..."
          [] t = "whatToWear" -> "Drafting gear load-out..."
          [] t = "hazardScan" -> "Running hazard scan..."
          [] t = "celestialEvents" -> "Mapping celestial events..."
          [] t = "navigationWindows" -> "Calculating navigation windows..."]

\* the words before the errorText of a tool part in output-error
errorLine ==
    [t \in ToolNames |->
        CASE t = "weather" -> "Weather scan failed: "
          [] t = "whatToWear" -> "Gear bay offline: "
          [] t = "hazardScan" -> "Hazard scan failed: "
          [] t = "celestialEvents" -> "Event tracker glitch: "
          [] t = "navigationWindows" -> "Navigation planner offline: "]

\* the element the callback returns when no branch applies
Null(index) == [key |-> index, element |-> "null", shows |-> <<>>]

\* the callback without its branches for output-error
renderNoErrorLine(part, index) ==
    IF part.type = "text"
    THEN [key |-> index, element |-> "text", shows |-> <<part.text>>]
    ELSE IF part.type = "tool" /\ part.tool \in ToolNames
    THEN CASE part.state \in {"input-streaming", "input-available"} ->
                [key |-> index, element |-> "progress",
                 shows |-> <<progressLine[part.tool]>>]
           [] part.state = "output-available" ->
                [key |-> index, element |-> "card", shows |-> <<part.output>>]
           [] OTHER -> Null(index)
    ELSE Null(index)

\* the callback of the map: the element for one part
render(part, index) ==
    IF part.type = "text"
    THEN [key |-> index, element |-> "text", shows |-> <<part.text>>]
    ELSE IF part.type = "tool" /\ part.tool \in ToolNames
    THEN CASE part.state \in {"input-streaming", "input-available"} ->
                [key |-> index, element |-> "progress",
                 shows |-> <<progressLine[part.tool]>>]
           [] part.state = "output-error" ->
                [key |-> index, element |-> "error",
                 shows |-> <<errorLine[part.tool], part.errorText>>]
           [] part.state = "output-available" ->
                [key |-> index, element |-> "card", shows |-> <<part.output>>]
           [] OTHER -> Null(index)
    ELSE Null(index)

\* Array.prototype.map over the parts, index from 0
RECURSIVE map(_, _)
map(parts, index) ==
    IF parts = <<>> THEN <<>>
    ELSE <<render(Head(parts), index)>> \o map(Tail(parts), index + 1)

\* what React shows of a message: the elements that are not null, in order
rendered(msg) == SelectSeq(map(msg.parts, 0), LAMBDA e : e.element # "null")

----------------------------------------------------------------------------
(* Requests *)

UserId(k) == 2 * k - 1

AssistantId(k) == 2 * k

NewRun(k) ==
    [message |-> AssistantMessage(AssistantId(k)),
     stream |-> <<>>,          \* the chunks sent so far
     stage |-> "reasoning",    \* "reasoning" | "done" | "cancelled" | "failed"
     steps |-> 0,              \* steps finished
     stepText |-> FALSE,       \* the current step has produced text
     stepCalls |-> 0,          \* tool calls of the current step
     stepOutputs |-> 0,        \* tool results and tool errors of the current step
     streaming |-> 0,          \* id of the part whose input is streaming, or 0
     pending |-> {},           \* ids of the calls whose execute is outstanding
     executed |-> {},          \* ids of the calls whose execute was started
     nextId |-> 1]

\* a request that goes on after its cancellation
ActiveAfterCancel(r) == runs[r].stage \in {"reasoning", "cancelled"}

\* a request that goes on after it is done
ActiveAfterDone(r) == runs[r].stage \in {"reasoning", "done"}

Active(r) == runs[r].stage = "reasoning"

ActiveRuns == {r \in 1..Len(runs) : Active(r)}

\* Emit with a chunk that is applied but missing from the stream
EmitUnlogged(r, run, c) ==
    LET msg == ApplyChunk(run.message, c) IN
    /\ runs' = [runs EXCEPT ![r] = [run EXCEPT !.message = msg]]
    /\ messages' = Write(messages, msg)
    /\ status' = "streaming"

\* one chunk sent by request r and consumed by the page: the message under
\* construction is updated, written to the transcript, and the status becomes
\* "streaming"
Emit(r, run, c) ==
    LET msg == ApplyChunk(run.message, c) IN
    /\ runs' = [runs EXCEPT ![r] = [run EXCEPT !.message = msg,
                                               !.stream = Append(@, c)]]
    /\ messages' = Write(messages, msg)
    /\ status' = "streaming"

----------------------------------------------------------------------------
(* The page: handlers *)

\* onChange of the textarea
SetInput(v) ==
    /\ input # v
    /\ input' = v
    /\ UNCHANGED <<messages, status, error, runs, budget, invocation, pools, served, sample>>

\* useChat's sendMessage({ text }): the user message is pushed, the status
\* becomes "submitted", the error is reset and a request is sent
sendMessage(text) ==
    LET k == Len(runs) + 1 IN
    /\ budget.sends > 0
    /\ budget.patient => ActiveRuns = {}
    /\ budget' = [budget EXCEPT !.sends = @ - 1]
    /\ messages' = Append(messages, UserMessage(UserId(k), text))
    /\ status' = "submitted"
    /\ error' = FALSE
    /\ runs' = Append(runs, NewRun(k))

\* form submit, Send button and Ctrl/Cmd+Enter
handleSubmit ==
    LET trimmed == Trim(input) IN
    IF trimmed = <<>> \/ isStreaming
    THEN UNCHANGED vars
    ELSE /\ sendMessage(trimmed)
         /\ input' = <<>>
         /\ UNCHANGED <<invocation, pools, served, sample>>

\* a quick-prompt button
handleQuickPrompt(prompt) ==
    /\ sendMessage(prompt)
    /\ UNCHANGED <<input, invocation, pools, served, sample>>

\* Escape with a non-empty draft
handleClearDraft ==
    /\ input # <<>>
    /\ input' = <<>>
    /\ UNCHANGED <<messages, status, error, runs, budget, invocation, pools, served, sample>>

\* the Clear button (disabled when there is nothing to clear)
handleClear ==
    /\ hasMessages \/ Len(Trim(input)) # 0
    /\ messages' = <<>>
    /\ status' = IF status = "error" THEN "ready" ELSE status
    /\ error' = FALSE
    /\ input' = <<>>
    /\ UNCHANGED <<runs, budget, invocation, pools, served, sample>>

----------------------------------------------------------------------------
(* The route: one step of the loop of request r *)

\* the model starts a text part
TextStart(r) ==
    LET run == runs[r] IN
    /\ Active(r)
    /\ ~run.stepText /\ run.stepCalls = 0 /\ run.streaming = 0
    /\ Emit(r, [run EXCEPT !.stepText = TRUE, !.nextId = @ + 1],
            Chunk("text-start", run.nextId))
    /\ UNCHANGED <<error, input, budget, invocation, pools, served, sample>>

\* the model extends the text part of the current step
TextDelta(r) ==
    LET run == runs[r]
        last == Last(run.message.parts) IN
    /\ Active(r)
    /\ run.stepText /\ run.stepCalls = 0 /\ run.streaming = 0
    /\ Len(last.text) < MaxTextLen
    /\ Emit(r, run, [Chunk("text-delta", last.id) EXCEPT !.delta = "w"])
    /\ UNCHANGED <<error, input, budget, invocation, pools, served, sample>>

\* ToolInputStart that starts execute before the arguments are complete
ToolInputStartEager(r, tool) ==
    LET run == runs[r]
        cost == IF tool # "weather" \/ run.stepText \/ run.stepCalls > 0
                THEN 1 ELSE 0 IN
    /\ Active(r)
    /\ run.streaming = 0
    /\ run.stepCalls < MaxCallsPerStep
    /\ budget.calls > 0 /\ budget.deviations >= cost
    /\ budget' = [budget EXCEPT !.calls = @ - 1, !.deviations = @ - cost]
    /\ Emit(r, [run EXCEPT !.streaming = run.nextId, !.nextId = @ + 1,
                           !.stepCalls = @ + 1,
                           !.pending = @ \cup {run.nextId},
                           !.executed = @ \cup {run.nextId}],
            [Chunk("tool-input-start", run.nextId) EXCEPT !.tool = tool])
    /\ UNCHANGED <<error, input, invocation, pools, served, sample>>

\* the model starts a tool call: the part appears in input-streaming
ToolInputStart(r, tool) ==
    LET run == runs[r]
        cost == IF tool # "weather" \/ run.stepText \/ run.stepCalls > 0
                THEN 1 ELSE 0 IN
    /\ Active(r)
    /\ run.streaming = 0
    /\ run.stepCalls < MaxCallsPerStep
    /\ budget.calls > 0 /\ budget.deviations >= cost
    /\ budget' = [budget EXCEPT !.calls = @ - 1, !.deviations = @ - cost]
    /\ Emit(r, [run EXCEPT !.streaming = run.nextId, !.nextId = @ + 1,
                           !.stepCalls = @ + 1],
            [Chunk("tool-input-start", run.nextId) EXCEPT !.tool = tool])
    /\ UNCHANGED <<error, input, invocation, pools, served, sample>>

\* the arguments are complete and valid: the part becomes input-available
\* and execute starts
ToolCallValid(r, args) ==
    LET run == runs[r]
        id == run.streaming
        part == run.message.parts[PartIndex(run.message, id)] IN
    /\ Active(r)
    /\ id # 0
    /\ part.tool \in ToolNames
    /\ args \in ArgChoices(part.tool)
    /\ inputSchema(part.tool, args)
    /\ Emit(r, [run EXCEPT !.streaming = 0,
                           !.pending = @ \cup {id},
                           !.executed = @ \cup {id}],
            [Chunk("tool-input-available", id) EXCEPT !.input = args])
    /\ UNCHANGED <<error, input, budget, invocation, pools, served, sample>>

\* ToolCallInvalid that ends the response with an error
ToolCallInvalidAborts(r, args) ==
    LET run == runs[r]
        id == run.streaming
        part == run.message.parts[PartIndex(run.message, id)]
        cost == IF part.tool = "weather" THEN 1 ELSE 0
        c1 == [Chunk("tool-input-error", id) EXCEPT
                   !.input = args, !.errorText = "Invalid input for tool"]
        msg1 == ApplyChunk(run.message, c1) IN
    /\ Active(r)
    /\ id # 0
    /\ part.tool \in ToolNames
    /\ args \in ArgChoices(part.tool)
    /\ ~inputSchema(part.tool, args)
    /\ budget.deviations >= cost
    /\ budget' = [budget EXCEPT !.deviations = @ - cost]
    /\ runs' = [runs EXCEPT ![r] = [run EXCEPT !.streaming = 0,
                                               !.stage = "failed",
                                               !.message = msg1,
                                               !.stream = Append(@, c1)]]
    /\ messages' = Write(messages, msg1)
    /\ status' = "error"
    /\ error' = TRUE
    /\ UNCHANGED <<input, invocation, pools, served, sample>>

\* the arguments fail the input schema: execute is not called, the part
\* becomes output-error and the error is the result of the call
ToolCallInvalid(r, args) ==
    LET run == runs[r]
        id == run.streaming
        part == run.message.parts[PartIndex(run.message, id)]
        cost == IF part.tool = "weather" THEN 1 ELSE 0
        c1 == [Chunk("tool-input-error", id) EXCEPT
                   !.input = args, !.errorText = "Invalid input for tool"]
        c2 == [Chunk("tool-output-error", id) EXCEPT
                   !.errorText = "Invalid input for tool"]
        msg1 == ApplyChunk(run.message, c1)
        msg2 == ApplyChunk(msg1, c2) IN
    /\ Active(r)
    /\ id # 0
    /\ part.tool \in ToolNames
    /\ args \in ArgChoices(part.tool)
    /\ ~inputSchema(part.tool, args)
    /\ budget.deviations >= cost
    /\ budget' = [budget EXCEPT !.deviations = @ - cost]
    /\ runs' = [runs EXCEPT ![r] = [run EXCEPT !.streaming = 0,
                                               !.stepOutputs = @ + 1,
                                               !.message = msg2,
                                               !.stream = @ \o <<c1, c2>>]]
    /\ messages' = Write(Write(messages, msg1), msg2)
    /\ status' = "streaming"
    /\ UNCHANGED <<error, input, invocation, pools, served, sample>>

\* the call names a tool that tools does not hold: nothing is validated or
\* executed, the part becomes output-error and the error is the result of
\* the call
ToolCallUnknown(r, args) ==
    LET run == runs[r]
        id == run.streaming
        part == run.message.parts[PartIndex(run.message, id)]
        c1 == [Chunk("tool-input-error", id) EXCEPT
                   !.input = args, !.errorText = "Model tried to call unavailable tool"]
        c2 == [Chunk("tool-output-error", id) EXCEPT
                   !.errorText = "Model tried to call unavailable tool"]
        msg1 == ApplyChunk(run.message, c1)
        msg2 == ApplyChunk(msg1, c2) IN
    /\ Active(r)
    /\ id # 0
    /\ part.tool \notin ToolNames
    /\ args \in ArgChoices(part.tool)
    /\ runs' = [runs EXCEPT ![r] = [run EXCEPT !.streaming = 0,
                                               !.stepOutputs = @ + 1,
                                               !.message = msg2,
                                               !.stream = @ \o <<c1, c2>>]]
    /\ messages' = Write(Write(messages, msg1), msg2)
    /\ status' = "streaming"
    /\ UNCHANGED <<error, input, budget, invocation, pools, served, sample>>

\* execute of a pending call returns: the part becomes output-available
ToolResult(r, id) ==
    LET run == runs[r]
        part == run.message.parts[PartIndex(run.message, id)] IN
    /\ Active(r)
    /\ id \in run.pending
    /\ Emit(r, [run EXCEPT !.pending = @ \ {id}, !.stepOutputs = @ + 1],
            [Chunk("tool-output-available", id) EXCEPT
                 !.output = execute(part.tool, part.input, ZeroDraws(part.tool))])
    /\ pools' = poolsAfter(part.tool, part.input, ZeroDraws(part.tool))
    /\ UNCHANGED <<error, input, budget, invocation, served, sample>>

\* a stop condition that is never met
stopWhenNever(steps) == FALSE

\* stopWhen: stepCountIs(7)
stopWhen(steps) == steps = StepCap

\* FinishStep that goes on after a step without tool calls
FinishStepGoesOn(r) ==
    LET run == runs[r]
        steps == run.steps + 1
        goOn == /\ run.stepOutputs = run.stepCalls
                /\ ~stopWhen(steps) IN
    /\ Active(r)
    /\ run.streaming = 0 /\ run.pending = {}
    /\ IF goOn
       THEN /\ runs' = [runs EXCEPT ![r] = [run EXCEPT !.steps = steps,
                                                       !.stepText = FALSE,
                                                       !.stepCalls = 0,
                                                       !.stepOutputs = 0]]
            /\ UNCHANGED status
       ELSE /\ runs' = [runs EXCEPT ![r] = [run EXCEPT !.steps = steps,
                                                       !.stage = "done"]]
            /\ status' = "ready"
    /\ UNCHANGED <<messages, error, input, budget, invocation, pools, served, sample>>

\* FinishStep that treats the step cap as a failure of the response
FinishStepCapFails(r) ==
    LET run == runs[r]
        steps == run.steps + 1
        goOn == /\ run.stepCalls > 0
                /\ run.stepOutputs = run.stepCalls
                /\ ~stopWhen(steps) IN
    /\ Active(r)
    /\ run.streaming = 0 /\ run.pending = {}
    /\ IF goOn
       THEN /\ runs' = [runs EXCEPT ![r] = [run EXCEPT !.steps = steps,
                                                       !.stepText = FALSE,
                                                       !.stepCalls = 0,
                                                       !.stepOutputs = 0]]
            /\ UNCHANGED <<status, error>>
       ELSE IF run.stepCalls > 0 /\ stopWhen(steps)
       THEN /\ runs' = [runs EXCEPT ![r] = [run EXCEPT !.steps = steps,
                                                       !.stage = "failed"]]
            /\ status' = "error"
            /\ error' = TRUE
       ELSE /\ runs' = [runs EXCEPT ![r] = [run EXCEPT !.steps = steps,
                                                       !.stage = "done"]]
            /\ status' = "ready"
            /\ UNCHANGED error
    /\ UNCHANGED <<messages, input, budget, invocation, pools, served, sample>>

\* FinishStep that does not wait for the calls of the step to settle
FinishStepEarly(r) ==
    LET run == runs[r]
        steps == run.steps + 1
        goOn == /\ run.stepCalls > 0
                /\ ~stopWhen(steps) IN
    /\ Active(r)
    /\ run.streaming = 0
    /\ IF goOn
       THEN /\ runs' = [runs EXCEPT ![r] = [run EXCEPT !.steps = steps,
                                                       !.stepText = FALSE,
                                                       !.stepCalls = 0,
                                                       !.stepOutputs = 0]]
            /\ UNCHANGED status
       ELSE /\ runs' = [runs EXCEPT ![r] = [run EXCEPT !.steps = steps,
                                                       !.stage = "done"]]
            /\ status' = "ready"
    /\ UNCHANGED <<messages, error, input, budget, invocation, pools, served, sample>>

\* the step ends: the loop goes on when the step made tool calls, all of them
\* have a result, and the stop condition is not met; otherwise the response
\* is finished and the chat becomes ready
FinishStep(r) ==
    LET run == runs[r]
        steps == run.steps + 1
        goOn == /\ run.stepCalls > 0
                /\ run.stepOutputs = run.stepCalls
                /\ ~stopWhen(steps) IN
    /\ Active(r)
    /\ run.streaming = 0 /\ run.pending = {}
    /\ IF goOn
       THEN /\ runs' = [runs EXCEPT ![r] = [run EXCEPT !.steps = steps,
                                                       !.stepText = FALSE,
                                                       !.stepCalls = 0,
                                                       !.stepOutputs = 0]]
            /\ UNCHANGED status
       ELSE /\ runs' = [runs EXCEPT ![r] = [run EXCEPT !.steps = steps,
                                                       !.stage = "done"]]
            /\ status' = "ready"
    /\ UNCHANGED <<messages, error, input, budget, invocation, pools, served, sample>>

\* maxDuration = 30: the platform ends the request; the page sees the
\* stream close, cleanly or with an error
Timeout(r, clean) ==
    /\ Active(r)
    /\ runs' = [runs EXCEPT ![r].stage = "cancelled"]
    /\ status' = IF clean THEN "ready" ELSE "error"
    /\ error' = ~clean
    /\ UNCHANGED <<messages, input, budget, invocation, pools, served, sample>>

\* StreamFail that takes the unfinished message out of the transcript
StreamFailDropsMessage(r) ==
    /\ Active(r)
    /\ runs' = [runs EXCEPT ![r].stage = "failed"]
    /\ status' = "error"
    /\ error' = TRUE
    /\ messages' = SelectSeq(messages, LAMBDA m : m.id # AssistantId(r))
    /\ UNCHANGED <<input, budget, invocation, pools, served, sample>>

\* the model call or the connection fails
StreamFail(r) ==
    /\ Active(r)
    /\ runs' = [runs EXCEPT ![r].stage = "failed"]
    /\ status' = "error"
    /\ error' = TRUE
    /\ UNCHANGED <<messages, input, budget, invocation, pools, served, sample>>

----------------------------------------------------------------------------
(* The conversation *)

Init ==
    /\ messages = <<>>
    /\ status = "ready"
    /\ error = FALSE
    /\ input = <<>>
    /\ runs = <<>>
    /\ budget \in Budgets
    /\ invocation = NoInvocation
    /\ pools = modulePools
    /\ served = <<>>
    /\ sample = NoSample

Next ==
    \/ \E v \in Drafts : SetInput(v)
    \/ handleSubmit
    \/ \E p \in ClickedPrompts : handleQuickPrompt(p)
    \/ handleClearDraft
    \/ handleClear
    \/ \E r \in 1..Len(runs) : TextStart(r)
    \/ \E r \in 1..Len(runs) : TextDelta(r)
    \/ \E r \in 1..Len(runs), tool \in PlannerTools \cup UnknownTools :
           ToolInputStart(r, tool)
    \/ \E r \in 1..Len(runs), args \in ArgChoices("weather") \cup ArgChoices("whatToWear") :
           ToolCallValid(r, args)
    \/ \E r \in 1..Len(runs), args \in ArgChoices("weather") \cup ArgChoices("whatToWear") :
           ToolCallInvalid(r, args)
    \/ \E r \in 1..Len(runs), args \in ArgChoices("weather") : ToolCallUnknown(r, args)
    \/ \E r \in 1..Len(runs), id \in 1..(2 * StepCap * MaxCallsPerStep) : ToolResult(r, id)
    \/ \E r \in 1..Len(runs) : FinishStep(r)
    \/ \E r \in 1..Len(runs), clean \in BOOLEAN : Timeout(r, clean)
    \/ \E r \in 1..Len(runs) : StreamFail(r)

Spec == Init /\ [][Next]_vars

\* a step of request r: the loop of streamText moves on, or the platform ends
\* the request at maxDuration
RouteStep(r) ==
    /\ r <= Len(runs)
    /\ \/ TextStart(r)
       \/ TextDelta(r)
       \/ \E tool \in PlannerTools \cup UnknownTools : ToolInputStart(r, tool)
       \/ \E args \in ArgChoices("weather") \cup ArgChoices("whatToWear") :
              ToolCallValid(r, args) \/ ToolCallInvalid(r, args) \/ ToolCallUnknown(r, args)
       \/ \E id \in 1..(2 * StepCap * MaxCallsPerStep) : ToolResult(r, id)
       \/ FinishStep(r)
       \/ \E clean \in BOOLEAN : Timeout(r, clean)

\* the conversation when no request in progress is left without a step for
\* ever: it moves on or runs into the 30 seconds of maxDuration
SpecFair == Spec /\ \A r \in 1..MaxSends : WF_vars(RouteStep(r))

----------------------------------------------------------------------------
(* The tools taken alone: one invocation with any arguments and any draws *)

Locations == {"Titan", ""}

ToolArgs(tool) ==
    IF tool = "whatToWear"
    THEN {SuggestionArgs(k) : k \in 0..(MaxSuggestions + 1)} \cup {EmptyArgs}
    ELSE {LocationArgs(l) : l \in Locations} \cup {EmptyArgs}

InitTools ==
    /\ messages = <<>>
    /\ status = "ready"
    /\ error = FALSE
    /\ input = <<>>
    /\ runs = <<>>
    /\ budget = [sends |-> 0, calls |-> 0, deviations |-> 0, patient |-> FALSE]
    /\ pools = modulePools
    /\ served = <<>>
    /\ sample = NoSample
    /\ \E tool \in ToolNames : \E args \in ToolArgs(tool) : \E d \in Draws(tool) :
           invocation = [NoInvocation EXCEPT !.tool = tool, !.args = args,
                                             !.draws = d, !.state = "called"]

Invoke ==
    /\ invocation.state = "called"
    /\ invocation' = invoke(invocation.tool, invocation.args, invocation.draws)
    /\ pools' = IF inputSchema(invocation.tool, invocation.args)
                THEN poolsAfter(invocation.tool, invocation.args, invocation.draws)
                ELSE pools
    /\ UNCHANGED <<messages, status, error, input, runs, budget, served, sample>>

NextTools == Invoke

SpecTools == InitTools /\ [][NextTools]_vars

----------------------------------------------------------------------------
(* The module serving several conversations: their tool invocations run one
   after the other in any order (execute has no await, so an invocation is
   not interrupted), all on the arrays of the one module *)

SharedTools == {"weather", "hazardScan", "navigationWindows", "celestialEvents"}

\* the draws of an invocation: each shuffle draw is 0, or each is i (which
\* swaps nothing); the other draws are 0
SharedDraws(tool) ==
    {d \in Draws(tool) :
        /\ \/ \A i \in DOMAIN d.shuffle : d.shuffle[i] = 0
           \/ \A i \in DOMAIN d.shuffle : d.shuffle[i] = i
        /\ \A i \in DOMAIN d.picks : d.picks[i] = 0}

InitShared ==
    /\ messages = <<>>
    /\ status = "ready"
    /\ error = FALSE
    /\ input = <<>>
    /\ runs = <<>>
    /\ budget = [sends |-> 0, calls |-> 0, deviations |-> 0, patient |-> FALSE]
    /\ invocation = NoInvocation
    /\ pools = modulePools
    /\ served = <<>>
    /\ sample = NoSample

\* a request of conversation c has a tool executed
Serve(c, tool, args, d) ==
    /\ Len(served) < MaxServed
    /\ inputSchema(tool, args)
    /\ served' = Append(served, [conversation |-> c, tool |-> tool, args |-> args,
                                 draws |-> d, output |-> execute(tool, args, d)])
    /\ pools' = poolsAfter(tool, args, d)
    /\ UNCHANGED <<messages, status, error, input, runs, budget, invocation, sample>>

NextShared ==
    \E c \in 1..MaxConversations, tool \in SharedTools :
        \E d \in SharedDraws(tool) : Serve(c, tool, LocationArgs("Titan"), d)

SpecShared == InitShared /\ [][NextShared]_vars

----------------------------------------------------------------------------
(* takeRandom taken alone: one call with any list, any count and any draws *)

\* the lists of at most MaxItems items, some of them equal
ItemLists == UNION {[1..n -> {"a", "b"}] : n \in 0..MaxItems}

InitTake ==
    /\ messages = <<>>
    /\ status = "ready"
    /\ error = FALSE
    /\ input = <<>>
    /\ runs = <<>>
    /\ budget = [sends |-> 0, calls |-> 0, deviations |-> 0, patient |-> FALSE]
    /\ invocation = NoInvocation
    /\ pools = modulePools
    /\ served = <<>>
    /\ \E items \in ItemLists : \E count \in 0..MaxCount :
          \E js \in ShuffleDraws(Len(items)) :
              sample = [NoSample EXCEPT !.state = "called", !.given = items,
                                        !.items = items, !.count = count, !.draws = js]

\* the call returns: result is what it returns, items the list it was given
\* as the call leaves it
Take ==
    /\ sample.state = "called"
    /\ sample' = [sample EXCEPT
                      !.state = "returned",
                      !.result = takeRandom(sample.items, sample.count, sample.draws),
                      !.items = takeRandomItems(sample.items, sample.count, sample.draws)]
    /\ UNCHANGED <<messages, status, error, input, runs, budget, invocation, pools,
                   served>>

NextTake == Take

SpecTake == InitTake /\ [][NextTake]_vars

----------------------------------------------------------------------------
(* The renderer taken alone: an assistant message of text parts and tool
   parts of the five tools, each moved through its states by the chunks of
   the stream *)

FreshParts == [1..MaxRenderParts -> {"text"} \cup ToolNames]

InitRender ==
    /\ status = "streaming"
    /\ error = FALSE
    /\ input = <<>>
    /\ runs = <<>>
    /\ budget = [sends |-> 0, calls |-> 0, deviations |-> 0, patient |-> FALSE]
    /\ invocation = NoInvocation
    /\ pools = modulePools
    /\ served = <<>>
    /\ sample = NoSample
    /\ \E ps \in FreshParts :
          messages = <<[AssistantMessage(AssistantId(1)) EXCEPT
                           !.parts = [j \in 1..MaxRenderParts |->
                                         IF ps[j] = "text" THEN TextPart(j)
                                         ELSE ToolPart(j, ps[j])]]>>

\* the arguments a tool accepts
ValidArgs(tool) ==
    IF tool = "whatToWear" THEN SuggestionArgs(MaxSuggestions) ELSE LocationArgs("Titan")

\* the next chunk for part j arrives and the message is shown again
Deliver(j, kind) ==
    LET msg == messages[1]
        part == msg.parts[j]
        c == CASE kind = "text-delta" -> [Chunk(kind, part.id) EXCEPT !.delta = "w"]
               [] kind = "tool-input-available" ->
                    [Chunk(kind, part.id) EXCEPT !.input = ValidArgs(part.tool)]
               [] kind = "tool-input-error" ->
                    [Chunk(kind, part.id) EXCEPT !.input = EmptyArgs,
                                                 !.errorText = "Invalid input for tool"]
               [] kind = "tool-output-available" ->
                    [Chunk(kind, part.id) EXCEPT
                         !.output = execute(part.tool, part.input, ZeroDraws(part.tool))] IN
    /\ CASE kind = "text-delta" -> part.type = "text" /\ Len(part.text) < MaxTextLen
          [] kind \in {"tool-input-available", "tool-input-error"} ->
               IsTool(part) /\ part.state = "input-streaming"
          [] kind = "tool-output-available" ->
               IsTool(part) /\ part.state = "input-available"
    /\ messages' = [messages EXCEPT ![1] = ApplyChunk(msg, c)]
    /\ UNCHANGED <<status, error, input, runs, budget, invocation, pools, served, sample>>

NextRender ==
    \E j \in 1..MaxRenderParts :
        \E kind \in {"text-delta", "tool-input-available", "tool-input-error",
                      "tool-output-available"} : Deliver(j, kind)

SpecRender == InitRender /\ [][NextRender]_vars

----------------------------------------------------------------------------
(* Properties *)

RunIds == 1..Len(runs)

Max(S) == CHOOSE x \in S : \A y \in S : y <= x

\* the parts of the message of request r as the transcript msgs shows it:
\* those of its latest copy, none when the transcript does not hold it
View(r, msgs) ==
    LET at == {i \in 1..Len(msgs) : msgs[i].id = AssistantId(r)} IN
    IF at = {} THEN <<>> ELSE msgs[Max(at)].parts

IsPrefix(s, t) == Len(s) <= Len(t) /\ SubSeq(t, 1, Len(s)) = s

\* the steps of the part state machine as the specification draws it
LegalStep(a, b) ==
    \/ a = b
    \/ a = "input-streaming" /\ b = "input-available"
    \/ a = "input-available" /\ b \in {"output-available", "output-error"}

\* the same, with the step of a call whose arguments are rejected
LegalStepOrRejected(a, b) ==
    \/ LegalStep(a, b)
    \/ a = "input-streaming" /\ b = "output-error"

\* C1: a response takes at most 7 reasoning steps, the one in progress
\* included.
C1_StepCap ==
    \A r \in RunIds :
        runs[r].steps + (IF Active(r) THEN 1 ELSE 0) <= StepCap

C1_Witness ==
    \E r \in RunIds : runs[r].stage = "done" /\ runs[r].steps = StepCap

C3_SingleRun == Cardinality(ActiveRuns) <= 1

\* C4: a user message holds exactly one text part and no tool part.
C4_UserMessage ==
    \A i \in 1..Len(messages) :
        messages[i].role = "user" =>
            /\ Len(messages[i].parts) = 1
            /\ messages[i].parts[1].type = "text"

C4_Witness ==
    \E i, j \in 1..Len(messages) :
        /\ messages[i].role = "user" /\ messages[i].parts[1].text = <<"a">>
        /\ messages[j].role = "user" /\ messages[j].parts[1].text \in quickPrompts

\* C5: the step that puts a tool part in output-error leaves the request in
\* its loop and raises no error; a request stays in its loop until a step
\* without tool calls, the step cap, the timeout or a failure of the stream.
C5_ToolErrorGoesOn ==
    [][\A r \in RunIds : \A j \in 1..Len(runs[r].message.parts) :
          (/\ j <= Len(runs'[r].message.parts)
           /\ runs[r].message.parts[j].state # "output-error"
           /\ runs'[r].message.parts[j].state = "output-error")
              => /\ runs'[r].stage = "reasoning"
                 /\ status' # "error"
                 /\ error' = error]_vars

C5_Witness ==
    \E r \in RunIds : \E j, k \in 1..Len(runs[r].message.parts) :
        /\ runs[r].stage = "done" /\ status = "ready" /\ ~error
        /\ runs[r].message.parts[j].state = "output-error"
        /\ j < k
        /\ runs[r].steps >= 2

\* the arguments that fail the input schema of a tool
FailsSchema(tool, args) ==
    IF tool = "whatToWear"
    THEN \/ args.kind # "suggestions"
         \/ Len(args.suggestions) = 0
         \/ Len(args.suggestions) > 3
    ELSE args.kind # "location"

\* C6: a call whose arguments fail the input schema (for whatToWear: no
\* suggestion or more than 3) never runs execute, and its part is in
\* output-error with a non-empty errorText.
C6_InvalidArguments ==
    \A r \in RunIds : \A k \in 1..Len(runs[r].stream) :
        LET c == runs[r].stream[k]
            part == runs[r].message.parts[PartIndex(runs[r].message, c.id)] IN
        (/\ c.type \in {"tool-input-available", "tool-input-error"}
         /\ FailsSchema(part.tool, c.input))
            => /\ c.id \notin runs[r].executed
               /\ part.state = "output-error"
               /\ part.errorText # ""
               /\ part.output = NoOutput

C6_Witness ==
    \E r \in RunIds : \E j \in 1..Len(View(r, messages)) :
        /\ runs[r].stage = "done" /\ status = "ready"
        /\ View(r, messages)[j].tool = "whatToWear"
        /\ Len(View(r, messages)[j].rawInput.suggestions) = MaxSuggestions + 1
        /\ View(r, messages)[j].state = "output-error"
        /\ View(r, messages)[j].errorText # ""

\* new is old with parts added at the end, texts extended and states advanced
Grows(old, new) ==
    /\ Len(old) <= Len(new)
    /\ \A j \in 1..Len(old) :
          /\ new[j].type = old[j].type
          /\ new[j].id = old[j].id
          /\ new[j].tool = old[j].tool
          /\ IsPrefix(old[j].text, new[j].text)
          /\ LegalStepOrRejected(old[j].state, new[j].state)

C9_Cancelled ==
    [][\A r \in RunIds :
          /\ (Active(r) /\ runs'[r].stage = "cancelled")
                => messages' = messages /\ Len(runs') = Len(runs)
          /\ runs[r].stage = "cancelled"
                => /\ runs'[r] = runs[r]
                   /\ Len(runs') > Len(runs)
                         => /\ Len(messages') = Len(messages) + 1
                            /\ Last(messages').role = "user"
                   /\ \/ messages' = <<>>
                      \/ \A i \in 1..Len(messages) :
                            messages[i].id = AssistantId(r)
                                => i <= Len(messages') /\ messages'[i] = messages[i]]_vars

C9_Witness ==
    \E r \in RunIds : \E j \in 1..Len(View(r, messages)) :
        /\ runs[r].stage = "cancelled"
        /\ View(r, messages)[j].state = "input-available"
        /\ Len(View(r, messages)) >= 2

\* C10: a successful hazardScan, navigationWindows or celestialEvents
\* returns at most 3 entries, a successful whatToWear between 1 and 3.
C10_OutputSizes ==
    invocation.state = "returned" =>
        /\ invocation.tool = "hazardScan" => Len(invocation.output.hazards) <= 3
        /\ invocation.tool = "navigationWindows" => Len(invocation.output.windows) <= 3
        /\ invocation.tool = "celestialEvents" => Len(invocation.output.events) <= 3
        /\ invocation.tool = "whatToWear" =>
              /\ Len(invocation.output.suggestions) >= 1
              /\ Len(invocation.output.suggestions) <= 3

C10_Witness ==
    /\ invocation.state = "returned"
    /\ invocation.tool = "hazardScan"
    /\ Len(invocation.output.hazards) = 3

\* C11: the "tool runs" metric is the number of tool parts of the transcript,
\* over all its messages, whose state is output-available; text parts and
\* tool parts in input-streaming, input-available or output-error are not
\* counted.
C11_ToolRuns ==
    toolActivations =
        Cardinality({ij \in (1..Len(messages)) \X (1..(2 * StepCap * MaxCallsPerStep)) :
                        /\ ij[2] <= Len(messages[ij[1]].parts)
                        /\ messages[ij[1]].parts[ij[2]].type = "tool"
                        /\ messages[ij[1]].parts[ij[2]].state = "output-available"})

C11_Witness ==
    /\ toolActivations = 1
    /\ \E i \in 1..Len(messages) : \E j, k, l \in 1..Len(messages[i].parts) :
          /\ messages[i].parts[j].state = "output-available"
          /\ messages[i].parts[k].state = "output-error"
          /\ messages[i].parts[l].type = "text"

\* C12: a step that ends without a tool call (the planner's final answer)
\* ends the response, whatever number of steps is left: the request is done,
\* the chat is ready, and afterwards the request sends nothing and no part is
\* added to its message, in the request or in the transcript.
C12_FinalAnswerStops ==
    [][\A r \in RunIds :
          /\ (/\ Active(r)
              /\ runs[r].stepCalls = 0
              /\ runs'[r].steps = runs[r].steps + 1)
                => /\ runs'[r].stage = "done"
                   /\ runs'[r].message = runs[r].message
                   /\ status' = "ready"
                   /\ messages' = messages
          /\ runs[r].stage = "done"
                => /\ runs'[r] = runs[r]
                   /\ \/ messages' = <<>>
                      \/ View(r, messages') = View(r, messages)]_vars

C12_Witness ==
    \E r \in RunIds :
        LET parts == runs[r].message.parts IN
        /\ runs[r].stage = "done"
        /\ runs[r].steps = 2
        /\ Len(parts) = 2
        /\ parts[1].state = "output-available"
        /\ parts[2].type = "text" /\ parts[2].text # <<>>
        /\ View(r, messages) = parts
        /\ budget.calls > 0

\* C13: when the 7th step ends with tool calls, all of them answered, the
\* response is done and not failed: the chat is ready, no error is set, and
\* the message, in the request and in the transcript, is the parts produced
\* so far, unchanged from then on.
C13_CapEndsInDone ==
    [][\A r \in RunIds :
          (/\ Active(r)
           /\ runs[r].stepCalls > 0
           /\ runs[r].steps + 1 = StepCap
           /\ runs'[r].steps = StepCap)
             => /\ runs'[r].stage = "done"
                /\ status' = "ready" /\ error' = error
                /\ runs'[r].message = runs[r].message
                /\ messages' = messages]_vars

C13_Witness ==
    \E r \in RunIds :
        LET parts == runs[r].message.parts IN
        /\ runs[r].stage = "done" /\ status = "ready" /\ ~error
        /\ runs[r].steps = StepCap
        /\ Len(parts) = StepCap
        /\ \A j \in 1..Len(parts) : parts[j].state = "output-available"
        /\ View(r, messages) = parts

\* C14 as stated: a call of a tool that is not registered fails the response
\* (the request is failed and the chat shows an error); its part is never
\* settled in output-error with the request going on or done.
C14_UnknownToolFails ==
    \A r \in RunIds : \A j \in 1..Len(runs[r].message.parts) :
        LET part == runs[r].message.parts[j] IN
        (IsTool(part) /\ part.tool \notin ToolNames /\ part.state # "input-streaming")
            => runs[r].stage = "failed" /\ part.state # "output-error"

\* C15: the step in which the stream of a response fails sets the error
\* status, changes no message and sends no request; afterwards the failed
\* request sends nothing, its message stays as it is in every step but the
\* user's clear operation, a request is sent only together with a new user
\* message, and while the error status lasts a submit of a non-blank draft
\* is accepted.
C15_StreamFailure ==
    [][\A r \in RunIds :
          /\ (Active(r) /\ runs'[r].stage = "failed")
                => /\ status' = "error" /\ error'
                   /\ messages' = messages
                   /\ Len(runs') = Len(runs)
          /\ runs[r].stage = "failed"
                => /\ runs'[r] = runs[r]
                   /\ Len(runs') > Len(runs)
                         => /\ Len(messages') = Len(messages) + 1
                            /\ Last(messages').role = "user"
                   /\ \/ messages' = <<>>
                      \/ \A i \in 1..Len(messages) :
                            messages[i].id = AssistantId(r)
                                => i <= Len(messages') /\ messages'[i] = messages[i]
                   /\ (/\ status = "error"
                       /\ Trim(input) # <<>>
                       /\ budget.sends > 0
                       /\ budget.patient => ActiveRuns = {})
                         => ENABLED (handleSubmit /\ Len(runs') = Len(runs) + 1)]_vars

C15_Witness ==
    \E r \in RunIds :
        /\ runs[r].stage = "failed"
        /\ View(r, messages) = runs[r].message.parts
        /\ Len(View(r, messages)) >= 1
        /\ Len(runs) > r
        /\ Last(messages) = UserMessage(UserId(r + 1), <<"a">>)
        /\ status = "submitted" /\ ~error

InPool(x, pool) == \E i \in 1..Len(pool) : pool[i] = x

\* C16: a successful weather invocation with {location: L} returns L as
\* location, an integer temperature in 42..261, and conditions, wind,
\* radiation and advisory that are non-empty texts of their pools.
C16_WeatherOutput ==
    (invocation.state = "returned" /\ invocation.tool = "weather") =>
        LET out == invocation.output IN
        /\ out.location = invocation.args.location
        /\ out.temperature \in 42..261
        /\ InPool(out.conditions, conditionPool) /\ out.conditions # ""
        /\ InPool(out.wind, windPool) /\ out.wind # ""
        /\ InPool(out.radiation, radiationPool) /\ out.radiation # ""
        /\ InPool(out.advisory, advisoryPool) /\ out.advisory # ""

C16_Witness ==
    /\ invocation.state = "returned"
    /\ invocation.tool = "weather"
    /\ invocation.output.location = "Titan"
    /\ invocation.output.temperature = 261
    /\ invocation.output.advisory = "Recommended to enable adaptive gravity boots."

\* C17: a successful whatToWear invocation (1 to 3 suggestions) returns the
\* list of suggestions it was given: same length, same entries, same order.
C17_WearEcho ==
    (invocation.state = "returned" /\ invocation.tool = "whatToWear") =>
        LET given == invocation.args.suggestions
            back == invocation.output.suggestions IN
        /\ Len(given) \in 1..3
        /\ Len(back) = Len(given)
        /\ \A i \in 1..Len(given) : back[i] = given[i]

C17_Witness ==
    /\ invocation.state = "returned"
    /\ invocation.tool = "whatToWear"
    /\ Len(invocation.output.suggestions) = 3
    /\ invocation.output.suggestions[1].title = "Aurora visor"
    /\ invocation.output.suggestions[3].title = "Plasma cloak"

\* C18 as stated: the status badge shows one of idle ("Standing by"),
\* reasoning ("Routing tools"), streaming-text ("Streaming response") or
\* error ("Transmission glitch"); while a response is in progress it shows
\* reasoning or streaming-text, and it shows idle only when no response is
\* in progress.
C18_StatusDisplay ==
    /\ statusDetails.label \in {"Standing by", "Routing tools", "Streaming response",
                                "Transmission glitch"}
    /\ ActiveRuns # {}
          => statusDetails.label \in {"Routing tools", "Streaming response"}
    /\ statusDetails.label = "Standing by" => ActiveRuns = {}

\* the order of a response: it starts, empty, with a user message; its steps
\* only count up; once done it changes no more, in the request and (but for
\* the clear operation) in the transcript; and when no response is in progress
\* after one is done, a submit of a non-blank draft is accepted
ResponseOrder ==
    /\ Len(runs') > Len(runs)
          => /\ runs' = Append(runs, NewRun(Len(runs) + 1))
             /\ Len(messages') = Len(messages) + 1
             /\ Last(messages').role = "user"
    /\ \A r \in RunIds :
          /\ runs[r].stage = "reasoning"
                => /\ runs'[r].stage \in {"reasoning", "done", "cancelled", "failed"}
                   /\ runs'[r].steps \in {runs[r].steps, runs[r].steps + 1}
                   /\ runs'[r].stage = "done" => runs'[r].steps = runs[r].steps + 1
          /\ runs[r].stage = "done"
                => /\ runs'[r] = runs[r]
                   /\ messages' = <<>> \/ View(r, messages') = View(r, messages)
                   /\ (/\ ActiveRuns = {}
                       /\ Trim(input) # <<>>
                       /\ budget.sends > 0)
                         => ENABLED (handleSubmit /\ Len(runs') = Len(runs) + 1)

\* C19 as stated: a response goes from its start through its reasoning steps
\* to done; done is final; a response that has ended and was not cancelled is
\* done; after done the next user message is accepted.
C19_ReachesDone ==
    /\ [][ResponseOrder]_vars
    /\ [](\A r \in 1..MaxSends :
             (r <= Len(runs) /\ runs[r].stage \notin {"reasoning", "cancelled"})
                 => runs[r].stage = "done")

\* C19 amended: the same order; every response eventually ends, and it ends
\* done unless it is cancelled (the 30 seconds timeout) or its stream fails.
C19_EndsDoneOrStopped ==
    /\ [][ResponseOrder]_vars
    /\ \A r \in 1..MaxSends :
          (r <= Len(runs) /\ runs[r].stage = "reasoning")
              ~> (r <= Len(runs) /\ runs[r].stage \in {"done", "cancelled", "failed"})

C19_Witness ==
    /\ Len(runs) = 2
    /\ runs[1].stage = "done" /\ runs[1].steps = 2
    /\ runs[2].stage = "done"
    /\ Len(messages) = 4
    /\ messages[3].role = "user" /\ messages[3].parts[1].text = <<"a">>
    /\ budget.patient

\* a tool part has an output exactly in output-available and an error text
\* exactly in output-error
OutputIffSettled(part) ==
    IsTool(part) =>
        /\ part.output # NoOutput <=> part.state = "output-available"
        /\ part.errorText # "" <=> part.state = "output-error"

\* a part does not go from one of output-available, output-error to the other
StaysSettled(old, new) ==
    /\ old.state = "output-available" => new.state # "output-error"
    /\ old.state = "output-error" => new.state # "output-available"

\* C20: every tool part, in a message under construction and in the
\* transcript, has an output if and only if it is in output-available and an
\* errorText if and only if it is in output-error, and a part in one of these
\* two states never moves to the other.
C20_TerminalStates ==
    /\ [](/\ \A r \in RunIds : \A j \in 1..Len(runs[r].message.parts) :
                OutputIffSettled(runs[r].message.parts[j])
          /\ \A i \in 1..Len(messages) : \A j \in 1..Len(messages[i].parts) :
                OutputIffSettled(messages[i].parts[j]))
    /\ [][/\ \A r \in RunIds : \A j \in 1..Len(runs[r].message.parts) :
                j <= Len(runs'[r].message.parts)
                    => StaysSettled(runs[r].message.parts[j], runs'[r].message.parts[j])
          /\ \A i \in 1..Min(Len(messages), Len(messages')) :
                messages[i].id = messages'[i].id =>
                    \A j \in 1..Min(Len(messages[i].parts), Len(messages'[i].parts)) :
                        StaysSettled(messages[i].parts[j], messages'[i].parts[j])]_vars

C20_Witness ==
    \E i \in 1..Len(messages) : \E j, k \in 1..Len(messages[i].parts) :
        /\ messages[i].parts[j].state = "output-available"
        /\ messages[i].parts[j].output.tool = "weather"
        /\ messages[i].parts[j].errorText = ""
        /\ messages[i].parts[k].state = "output-error"
        /\ messages[i].parts[k].tool \in UnknownTools
        /\ messages[i].parts[k].errorText = "Model tried to call unavailable tool"
        /\ messages[i].parts[k].output = NoOutput

\* the transcript new holds every message of old in its place, each with at
\* least the parts it had, in the same order
Keeps(old, new) ==
    /\ Len(old) <= Len(new)
    /\ \A i \in 1..Len(old) :
          /\ new[i].id = old[i].id
          /\ new[i].role = old[i].role
          /\ Grows(old[i].parts, new[i].parts)

\* C21: every step keeps every message of the transcript and every part of
\* every message, in their order, except the clear operation, which empties
\* the transcript (and the draft, and the error) at once.
C21_OnlyClearRemoves ==
    [][\/ Keeps(messages, messages')
       \/ /\ messages' = <<>>
          /\ input' = <<>>
          /\ ~error'
          /\ runs' = runs]_vars

C21_Witness ==
    /\ Len(messages) = 4
    /\ Len(runs) = 2
    /\ runs[1].stage = "done"
    /\ messages[2] = runs[1].message /\ Len(messages[2].parts) >= 2
    /\ Active(2)
    /\ messages[4] = runs[2].message /\ Len(messages[4].parts) >= 2

\* C22: no tool invocation changes the module-level pools; whatever was
\* invoked before, by the same or by another conversation, an invocation
\* takes its entries from the full pools as the module created them, and
\* two invocations with the same arguments and draws return the same.
C22_NoSharedMutableState ==
    /\ pools = modulePools
    /\ \A k \in 1..Len(served) :
          LET c == served[k] IN
          /\ c.tool = "hazardScan"
                => c.output.hazards = takeRandom(hazardPool, 3, c.draws.shuffle)
          /\ c.tool = "navigationWindows"
                => \A i \in 1..Len(c.output.windows) :
                      c.output.windows[i].label
                          = takeRandom(windowPool, 3, c.draws.shuffle)[i].label
          /\ c.tool = "celestialEvents"
                => \A i \in 1..Len(c.output.events) :
                      c.output.events[i].title
                          = takeRandom(eventPool, 3, c.draws.shuffle)[i].title
          /\ \A j \in 1..Len(served) :
                (/\ served[j].tool = c.tool
                 /\ served[j].args = c.args
                 /\ served[j].draws = c.draws)
                    => served[j].output = c.output

C22_Witness ==
    /\ Len(served) = 3
    /\ served[1].conversation = 1 /\ served[1].tool = "hazardScan"
    /\ served[2].conversation = 2 /\ served[2].tool = "celestialEvents"
    /\ served[3].conversation = 2 /\ served[3].tool = "hazardScan"
    /\ served[1].draws = served[3].draws
    /\ served[1].draws.shuffle[1] = 0 /\ served[1].draws.shuffle[5] = 0
    /\ served[3].output = served[1].output
    /\ served[3].output.hazards[1].name # hazardPool[1].name

\* the places of the tool parts of a message that are not settled
Unsettled(parts) ==
    {j \in 1..Len(parts) :
        IsTool(parts[j]) /\ parts[j].state \in {"input-streaming", "input-available"}}

Spaces(n) == [i \in 1..n |-> " "]

\* text is draft without the whitespace around it
IsTrimOf(text, draft) ==
    /\ text # <<>> => Head(text) # " " /\ Last(text) # " "
    /\ \E a, b \in 0..Len(draft) : draft = Spaces(a) \o text \o Spaces(b)

\* the step adds a user message
Sends == Len(messages') = Len(messages) + 1 /\ Last(messages').role = "user"

\* C24: a user message sent by the submit operation (the step that empties a
\* non-empty draft) holds the draft without its leading and trailing
\* whitespace, and that text is not empty; with a draft that is empty or
\* whitespace only, a message is sent by a quick prompt or not at all.
C24_SubmitTrims ==
    [][Sends =>
          LET text == Last(messages').parts[1].text IN
          IF input' # input
          THEN /\ IsTrimOf(text, input)
               /\ text # <<>>
               /\ input' = <<>>
          ELSE text \in quickPrompts]_vars

C24_Witness ==
    /\ Len(messages) = 1
    /\ messages[1] = UserMessage(UserId(1), <<"a">>)
    /\ input = <<>>
    /\ status = "submitted"
    /\ budget.sends = 0

\* C25 as stated: a submit with a blank draft or during a response in
\* progress changes neither the transcript nor the draft; a submit that is
\* accepted adds exactly one user message, the trimmed draft, and empties the
\* draft; a quick prompt adds exactly one user message, its text, and leaves
\* the draft as it is.
C25_SubmitFrame ==
    [][/\ (Trim(input) = <<>> \/ ActiveRuns # {})
             => ~ENABLED (handleSubmit /\ (messages' # messages \/ input' # input))
       /\ (Sends /\ input' # input)
             => /\ messages' = Append(messages,
                                      UserMessage(UserId(Len(runs) + 1), Trim(input)))
                /\ input' = <<>>
       /\ (Sends /\ input' = input)
             => \E p \in quickPrompts :
                   messages' = Append(messages, UserMessage(UserId(Len(runs) + 1), p))]_vars

\* C26 as stated: the clear operation leaves the transcript empty, the draft
\* empty, the error cleared and the tool-runs count 0, and an empty
\* transcript stays empty, with a count of 0, until the user sends a message:
\* nothing of a response that was in progress comes back.
C26_ClearStays ==
    [][/\ (messages # <<>> /\ messages' = <<>>)
             => input' = <<>> /\ ~error' /\ toolActivations' = 0
       /\ (messages = <<>> /\ ~Sends)
             => messages' = <<>> /\ toolActivations' = 0]_vars

\* the element for a part of a registered tool or a text part, as the
\* specification of the renderer has it
ShowsPart(e, part) ==
    IF part.type = "text"
    THEN e.element = "text" /\ e.shows = <<part.text>>
    ELSE CASE part.state \in {"input-streaming", "input-available"} ->
                e.element = "progress" /\ e.shows[1] # ""
           [] part.state = "output-error" ->
                e.element = "error" /\ e.shows[2] = part.errorText
           [] part.state = "output-available" ->
                e.element = "card" /\ e.shows = <<part.output>>

\* C27: every text part and every tool part of the five tools, in each of the
\* four states, has its element on the page (the text; a progress line; the
\* error line with the errorText; the result card), the elements are in the
\* order of the parts, and a chunk for one part leaves the elements of the
\* other parts as they are.
C27_RendererTotal ==
    /\ [](\A i \in 1..Len(messages) :
             LET parts == messages[i].parts
                 shown == rendered(messages[i]) IN
             /\ Len(shown) = Len(parts)
             /\ \A j \in 1..Len(parts) :
                   /\ shown[j].key = j - 1
                   /\ ShowsPart(shown[j], parts[j]))
    /\ [][\A j \in 1..MaxRenderParts :
             messages'[1].parts[j] = messages[1].parts[j]
                 => rendered(messages'[1])[j] = rendered(messages[1])[j]]_vars

C27_Witness ==
    LET shown == rendered(messages[1]) IN
    /\ messages[1].parts[1].tool = "hazardScan"
    /\ messages[1].parts[1].state = "output-error"
    /\ shown[1].shows = <<"Hazard scan failed: ", "Invalid input for tool">>
    /\ messages[1].parts[2].tool = "navigationWindows"
    /\ messages[1].parts[2].state = "output-available"
    /\ shown[2].element = "card"
    /\ Len(shown[2].shows[1].windows) = 3

\* C28: takeRandom(items, count) returns min(count, length of items)
\* elements, which are the items at as many different positions of items,
\* and items is afterwards what it was.
C28_TakeRandom ==
    sample.state = "returned" =>
        LET n == Len(sample.given)
            k == Len(sample.result) IN
        /\ k = (IF sample.count < n THEN sample.count ELSE n)
        /\ \E f \in [1..k -> 1..n] :
              /\ \A a, b \in 1..k : a # b => f[a] # f[b]
              /\ \A a \in 1..k : sample.result[a] = sample.given[f[a]]
        /\ sample.items = sample.given

C28_Witness ==
    /\ sample.state = "returned"
    /\ sample.given = <<"a", "a", "a", "b">>
    /\ sample.count = 3
    /\ sample.result = <<"b", "a", "a">>
    /\ sample.items = sample.given

====
